---- MODULE Spec2Model ----
(***************************************************************************)
(* Model of energy_tool_mvp: the IEA workbook cleaning pipeline            *)
(* (data_pipeline.py) and the Streamlit dashboard (app.py).                *)
(*                                                                         *)
(* Text is modelled as a sequence of one-character strings, so that        *)
(* formatting, parsing and substring search are computed and not assumed.  *)
(* Library semantics are those of pandas 2.x / CPython 3 datetime.         *)
(***************************************************************************)
EXTENDS Integers, Sequences, FiniteSets, TLC

VARIABLES
    pc,            \* position of the script / handler being modelled
    date_val,      \* excel_date_converter: the raw cell handed in
    date_out,      \* excel_date_converter: the value returned
    raw_df,        \* rows of the 'Projects' sheet read by this run
    df,            \* the DataFrame clean_iea_data returned to __main__
    snapshot,      \* file data/processed/cleaned.parquet
    mirror,        \* table projects of data/projects.db
    app_parquet,   \* file data/projects.parquet (read by the dashboard)
    snapshot0,     \* history: snapshot when the current run started
    mirror0,       \* history: mirror when the current run started
    loaded,        \* what load_and_process_data last read, and from where
    rerun,         \* history: this run follows a successful run on the same workbook
    dash_df,       \* dashboard: the frame load_and_process_data returned
    search,        \* dashboard: text of the search box
    show_filters,  \* dashboard: st.session_state.show_filters
    selection,     \* dashboard: values picked in the three multiselects
    page           \* dashboard: st.session_state.page

dateVars == <<date_val, date_out>>
dashVars == <<dash_df, search, show_filters, selection, page>>
pipeVars == <<raw_df, df, snapshot, mirror, app_parquet, snapshot0, mirror0, loaded, rerun>>
vars == <<pc, date_val, date_out, raw_df, df, snapshot, mirror, app_parquet,
          snapshot0, mirror0, loaded, rerun, dash_df, search, show_filters, selection, page>>

(***************************************************************************)
(* Bounds                                                                  *)
(***************************************************************************)
MaxSerial == 1600
MaxRows == 3
MaxPipeRows == 2
MaxRecords == 20

(***************************************************************************)
(* Cells.  A raw workbook cell or a cleaned value is a record              *)
(*   t : "num" (int/float), "str" (text), "nan" (float NaN, empty cell),   *)
(*       "none" (Python None)                                              *)
(*   n : the number of a "num" cell, 0 otherwise                           *)
(*   s : the characters of a "str" cell, <<>> otherwise                    *)
(***************************************************************************)
Num(n) == [t |-> "num", n |-> n, s |-> <<>>]
Str(s) == [t |-> "str", n |-> 0, s |-> s]
NaN == [t |-> "nan", n |-> 0, s |-> <<>>]
None == [t |-> "none", n |-> 0, s |-> <<>>]

Digits == <<"0", "1", "2", "3", "4", "5", "6", "7", "8", "9">>
IsDigit(c) == \E i \in 1..10 : Digits[i] = c
DigitVal(c) == (CHOOSE i \in 1..10 : Digits[i] = c) - 1
DigitChar(k) == Digits[(k % 10) + 1]

(***************************************************************************)
(* Calendar arithmetic of datetime + timedelta (CPython _ymd2ord and       *)
(* _ord2ymd), reached through datetime(1899, 12, 30) + DateOffset(days=n). *)
(***************************************************************************)
IsLeap(y) == (y % 4 = 0 /\ y % 100 # 0) \/ y % 400 = 0

DAYS_IN_MONTH == <<31, 28, 31, 30, 31, 30, 31, 31, 30, 31, 30, 31>>
DAYS_BEFORE_MONTH == <<0, 31, 59, 90, 120, 151, 181, 212, 243, 273, 304, 334>>

DaysInMonth(y, m) == IF m = 2 /\ IsLeap(y) THEN 29 ELSE DAYS_IN_MONTH[m]
DaysBeforeYear(y) == (y - 1) * 365 + ((y - 1) \div 4) - ((y - 1) \div 100) + ((y - 1) \div 400)
DaysBeforeMonth(y, m) == DAYS_BEFORE_MONTH[m] + (IF m > 2 /\ IsLeap(y) THEN 1 ELSE 0)
ymd2ord(y, m, d) == DaysBeforeYear(y) + DaysBeforeMonth(y, m) + d

ord2ymd(ordinal) ==
    LET n0 == ordinal - 1
        n400 == n0 \div 146097
        r400 == n0 % 146097
        n100 == r400 \div 36524
        r100 == r400 % 36524
        n4 == r100 \div 1461
        r4 == r100 % 1461
        n1 == r4 \div 365
        n == r4 % 365
        year == n400 * 400 + 1 + n100 * 100 + n4 * 4 + n1
        leapyear == n1 = 3 /\ (n4 # 24 \/ n100 = 3)
        month0 == (n + 50) \div 32
        preceding0 == DAYS_BEFORE_MONTH[month0] + (IF month0 > 2 /\ leapyear THEN 1 ELSE 0)
        back == preceding0 > n
        month == IF back THEN month0 - 1 ELSE month0
        preceding == IF back
                     THEN preceding0 - (DAYS_IN_MONTH[month] + (IF month = 2 /\ leapyear THEN 1 ELSE 0))
                     ELSE preceding0
    IN  IF n1 = 4 \/ n100 = 4
        THEN [y |-> year - 1, m |-> 12, d |-> 31]
        ELSE [y |-> year, m |-> month, d |-> n - preceding + 1]

EpochWrong == [y |-> 1900, m |-> 1, d |-> 1]

\* datetime(1899, 12, 30)
Epoch == [y |-> 1899, m |-> 12, d |-> 30]

\* datetime.__add__(timedelta(days=n)): toordinal, add, fromordinal
AddDays(date, n) == ord2ymd(ymd2ord(date.y, date.m, date.d) + n)

\* strftime('%Y-%m-%d'): zero padded, ten characters
strftime(date) ==
    << DigitChar(date.y \div 1000), DigitChar(date.y \div 100),
       DigitChar(date.y \div 10), DigitChar(date.y), "-",
       DigitChar(date.m \div 10), DigitChar(date.m), "-",
       DigitChar(date.d \div 10), DigitChar(date.d) >>

\* the shape \d\d\d\d-\d\d-\d\d of format='%Y-%m-%d' (zero padded form)
MatchesIsoFormat(s) ==
    /\ Len(s) = 10
    /\ s[5] = "-" /\ s[8] = "-"
    /\ \A i \in {1, 2, 3, 4, 6, 7, 9, 10} : IsDigit(s[i])

IsoFields(s) ==
    [y |-> DigitVal(s[1]) * 1000 + DigitVal(s[2]) * 100 + DigitVal(s[3]) * 10 + DigitVal(s[4]),
     m |-> DigitVal(s[6]) * 10 + DigitVal(s[7]),
     d |-> DigitVal(s[9]) * 10 + DigitVal(s[10])]

ValidDate(date) ==
    /\ date.y \in 1..9999
    /\ date.m \in 1..12
    /\ date.d \in 1..DaysInMonth(date.y, date.m)

\* pd.to_datetime(text, format='%Y-%m-%d', errors='coerce') yields a
\* Timestamp, or NaT when the text does not match or is no calendar date
ParsesAsIso(s) == MatchesIsoFormat(s) /\ ValidDate(IsoFields(s))

(***************************************************************************)
(* excel_date_converter (data_pipeline.py 41-55).                          *)
(*   numeric cell: epoch + DateOffset(days=n), formatted; a NaN cell is a  *)
(*   float, timedelta(days=nan) raises ValueError and the except branch    *)
(*   returns None.                                                         *)
(*   text cell: to_datetime(..., errors='coerce'); NaT.strftime raises     *)
(*   ValueError and the except branch returns None.                        *)
(***************************************************************************)
excel_date_converter(cell) ==
    CASE cell.t = "num" -> Str(strftime(AddDays(Epoch, cell.n)))
      [] cell.t = "nan" -> None
      [] cell.t = "str" -> IF ParsesAsIso(cell.s)
                           THEN Str(strftime(IsoFields(cell.s)))
                           ELSE None
      [] OTHER -> None

(***************************************************************************)
(* Dashboard (app.py).  A record of the frame has the text columns         *)
(* project_name, country, status, technology and date_online, which is     *)
(* [nat |-> TRUE] for NaT or carries the day number of the date.           *)
(***************************************************************************)
ITEMS_PER_PAGE == 9

LowerLetters == <<"a", "b", "c", "d", "e", "f", "g", "h", "i", "j", "k", "l", "m",
                  "n", "o", "p", "q", "r", "s", "t", "u", "v", "w", "x", "y", "z">>
UpperLetters == <<"A", "B", "C", "D", "E", "F", "G", "H", "I", "J", "K", "L", "M",
                  "N", "O", "P", "Q", "R", "S", "T", "U", "V", "W", "X", "Y", "Z">>

\* case folding of re.IGNORECASE on ASCII text
Lower(c) ==
    IF \E i \in 1..26 : UpperLetters[i] = c
    THEN LowerLetters[CHOOSE i \in 1..26 : UpperLetters[i] = c]
    ELSE c

\* one pattern character against one text character: str.contains compiles
\* the query as a regular expression (regex=True is the default), where
\* "." stands for any character; the queries modelled are made of letters,
\* spaces and "."
AtomMatches(p, c) == p = "." \/ Lower(p) = Lower(c)

\* Series.str.contains(pat, case=False, na=False) on one value: re.search
str_contains(text, pat) ==
    \E k \in 0..(Len(text) - Len(pat)) :
        \A i \in 1..Len(pat) : AtomMatches(pat[i], text[k + i])

SearchHit(r, q) == str_contains(r.project_name, q) \/ str_contains(r.country, q)

\* df[mask] of lines 145-148
RECURSIVE SelectSearch(_, _)
SelectSearch(rows, q) ==
    IF rows = <<>> THEN <<>>
    ELSE IF SearchHit(Head(rows), q) THEN <<Head(rows)>> \o SelectSearch(Tail(rows), q)
         ELSE SelectSearch(Tail(rows), q)

\* rows passing df[field].isin(values) for every field of the dict with a
\* non-empty list
FilterHit(r, filters) == \A f \in DOMAIN filters : filters[f] # {} => r[f] \in filters[f]

\* the loop of lines 150-152
RECURSIVE SelectFilter(_, _)
SelectFilter(rows, filters) ==
    IF rows = <<>> THEN <<>>
    ELSE IF FilterHit(Head(rows), filters) THEN <<Head(rows)>> \o SelectFilter(Tail(rows), filters)
         ELSE SelectFilter(Tail(rows), filters)

\* apply_filters (142-153)
apply_filters(rows, search_query, filters) ==
    LET searched == IF search_query # <<>>
                    THEN SelectSearch(rows, search_query)
                    ELSE rows
    IN  IF DOMAIN filters # {}
        THEN SelectFilter(searched, filters)
        ELSE searched

\* r sorts before x: newer date first, NaT last
Before(r, x) == ~r.date_online.nat /\ (x.date_online.nat \/ r.date_online.ord > x.date_online.ord)

RECURSIVE Insert(_, _)
Insert(r, sorted) ==
    IF sorted = <<>> THEN <<r>>
    ELSE IF Before(r, Head(sorted)) THEN <<r>> \o sorted
         ELSE <<Head(sorted)>> \o Insert(r, Tail(sorted))

\* sort_data (155-157): sort_values("date_online", ascending=False).  The
\* frames modelled hold no two equal dates and at most one NaT, so the
\* order is the same for every sorting algorithm.
RECURSIVE sort_data(_)
sort_data(rows) == IF rows = <<>> THEN <<>> ELSE Insert(Head(rows), sort_data(Tail(rows)))

Min(a, b) == IF a < b THEN a ELSE b
Max(a, b) == IF a > b THEN a ELSE b

\* DataFrame.iloc[start:end] for start, end >= 0
iloc(rows, start, end) ==
    LET lo == Min(start, Len(rows))
        hi == Min(end, Len(rows))
    IN  [k \in 1..(hi - lo) |-> rows[lo + k]]

total_pages_floor(total_items) == Max(total_items \div ITEMS_PER_PAGE + 1, 1)

\* line 197
total_pages(total_items) == Max((total_items - 1) \div ITEMS_PER_PAGE + 1, 1)

\* lines 209-211
paged_df(sorted, p) == iloc(sorted, (p - 1) * ITEMS_PER_PAGE, (p - 1) * ITEMS_PER_PAGE + ITEMS_PER_PAGE)

\* lines 183-190: the dict main hands to apply_filters
NoSelection == [status |-> {}, technology |-> {}, country |-> {}]
filters_of(show, sel) == IF show THEN sel ELSE [f \in {} |-> {}]

\* what main computes on the current rerun (192-211)
filtered_df == apply_filters(dash_df, search, filters_of(show_filters, selection))
sorted_df == sort_data(filtered_df)
total_items == Len(sorted_df)
unique(col) == {dash_df[i][col] : i \in 1..Len(dash_df)}

PlantA == <<"P", "l", "a", "n", "t", " ", "A">>
PlantB == <<"P", "l", "a", "n", "t", " ", "B">>
HubDotC == <<"H", "u", "b", ".", "C">>
France == <<"F", "r", "a", "n", "c", "e">>
Germany == <<"G", "e", "r", "m", "a", "n", "y">>

\* the frame of n records: names and countries as in the filtering
\* example, record 1 without a date, all other dates distinct
Dataset(n) ==
    [i \in 1..n |->
        [project_name |-> <<PlantA, PlantB, HubDotC>>[(i % 3) + 1],
         country |-> <<France, Germany>>[(i % 2) + 1],
         status |-> <<<<"F", "I", "D">>, <<"D", "E", "M", "O">>>>[((i \div 2) % 2) + 1],
         technology |-> <<<<"P", "E", "M">>, <<"A", "L", "K">>>>[((i \div 4) % 2) + 1],
         date_online |-> IF i = 1 THEN [nat |-> TRUE, ord |-> 0] ELSE [nat |-> FALSE, ord |-> i]]]

Queries == { <<>>, <<"p", "l", "a", "n", "t", " ", "a">>, <<"A", "N">>, <<".">>, <<"b", ".">> }

DashIdle ==
    /\ dash_df = <<>>
    /\ search = <<>>
    /\ show_filters = FALSE
    /\ selection = NoSelection
    /\ page = 1

\* next_page (159-161), the callback of a "Next" button that the last
\* rerun did not disable, followed by the rerun of main
NextPage ==
    /\ pc = "dash"
    /\ ~(page >= total_pages(total_items))
    /\ page' = page + 1
    /\ UNCHANGED <<pc, dateVars, pipeVars, dash_df, search, show_filters, selection>>

\* previous_page (163-165), likewise
PreviousPage ==
    /\ pc = "dash"
    /\ ~(page <= 1)
    /\ page' = page - 1
    /\ UNCHANGED <<pc, dateVars, pipeVars, dash_df, search, show_filters, selection>>

\* the text of the search box changes (171) and main reruns
ChangeSearch ==
    /\ pc = "dash"
    /\ search' \in Queries \ {search}
    /\ UNCHANGED <<pc, dateVars, pipeVars, dash_df, show_filters, selection, page>>

\* the "Filters" button (174-175); multiselects that are not rendered lose
\* their values, and start empty when rendered again
ToggleFilters ==
    /\ pc = "dash"
    /\ show_filters' = ~show_filters
    /\ selection' = NoSelection
    /\ UNCHANGED <<pc, dateVars, pipeVars, dash_df, search, page>>

\* a multiselect changes (188-190): any subset of the column's values
ChangeFilter ==
    /\ pc = "dash"
    /\ show_filters
    /\ \E f \in {"status", "technology", "country"} :
         \E values \in SUBSET unique(f) :
            /\ values # selection[f]
            /\ selection' = [selection EXCEPT ![f] = values]
    /\ UNCHANGED <<pc, dateVars, pipeVars, dash_df, search, show_filters, page>>

(***************************************************************************)
(* clean_iea_data (data_pipeline.py 58-119).  A row of the DataFrame is    *)
(*   idx  : its index label (the position in the sheet, kept through       *)
(*          drop_duplicates and stored by to_parquet)                      *)
(*   ref  : column DATABASE_Ref                                            *)
(*   date : column DATABASE_Date online                                    *)
(***************************************************************************)
NanText == <<"n", "a", "n">>
NoneText == <<"N", "o", "n", "e">>

\* Series.astype(str) under pandas 2.x: str() of every element, missing
\* values included (str(nan) = 'nan', str(None) = 'None').  The cells that
\* reach it here are text or missing.
astype_str(cell) ==
    CASE cell.t = "str" -> cell
      [] cell.t = "nan" -> Str(NanText)
      [] cell.t = "none" -> Str(NoneText)

\* pd.isna of one cell
isna(cell) == cell.t \in {"nan", "none"}

\* line 80
RefAsStr(rows) == [i \in 1..Len(rows) |-> [rows[i] EXCEPT !.ref = astype_str(@)]]

\* line 81: df.dropna(subset=['DATABASE_Ref'])
RECURSIVE dropna(_)
dropna(rows) ==
    IF rows = <<>> THEN <<>>
    ELSE IF isna(Head(rows).ref) THEN dropna(Tail(rows))
         ELSE <<Head(rows)>> \o dropna(Tail(rows))

\* lines 89-91
ConvertDates(rows) ==
    [i \in 1..Len(rows) |-> [rows[i] EXCEPT !.date = excel_date_converter(@)]]

RECURSIVE keep_last(_, _)
keep_last(rows, seen) ==
    IF rows = <<>> THEN <<>>
    ELSE IF \E j \in 2..Len(rows) : rows[j].ref = Head(rows).ref
         THEN keep_last(Tail(rows), seen)
         ELSE <<Head(rows)>> \o keep_last(Tail(rows), seen)

\* lines 94-96: drop_duplicates('DATABASE_Ref', keep='first'); seen holds
\* the identifiers of the rows already passed
RECURSIVE drop_duplicates(_, _)
drop_duplicates(rows, seen) ==
    IF rows = <<>> THEN <<>>
    ELSE IF Head(rows).ref \in seen
         THEN drop_duplicates(Tail(rows), seen)
         ELSE <<Head(rows)>> \o drop_duplicates(Tail(rows), seen \cup {Head(rows).ref})

\* lines 99-100: both columns hold Python objects (dtype object)
ObjectColsAsStr(rows) ==
    [i \in 1..Len(rows) |->
        [rows[i] EXCEPT !.ref = astype_str(@), !.date = astype_str(@)]]

\* lines 79-100, the table handed to to_parquet
CleanTable(rows) ==
    ObjectColsAsStr(drop_duplicates(ConvertDates(dropna(RefAsStr(rows))), {}))

(***************************************************************************)
(* Files and tables                                                        *)
(***************************************************************************)
AbsentFile == [state |-> "absent", rows |-> <<>>]
PartialFile == [state |-> "partial", rows |-> <<>>]
ParquetFile(rows) == [state |-> "ok", rows |-> rows]

AbsentTable == [state |-> "absent", rows |-> <<>>, indexes |-> {}]
Table(rows, indexes) == [state |-> "ok", rows |-> rows, indexes |-> indexes]

\* the columns of a frame without its index (to_sql(index=False), read_sql)
Columns(rows) == [i \in 1..Len(rows) |-> [ref |-> rows[i].ref, date |-> rows[i].date]]

to_sql_append(old, rows) == Table(old.rows \o Columns(rows), old.indexes)

\* line 133: df.to_sql('projects', conn, if_exists='replace', index=False)
\* drops the table (and its indexes) and inserts the frame's rows
to_sql(old, rows) == Table(Columns(rows), {})

\* line 134
create_index(table, col) == [table EXCEPT !.indexes = @ \cup {col}]

\* Workbooks of at most maxRows rows; row i carries index label i - 1
SeqsUpTo(S, n) == UNION {[1..k -> S] : k \in 0..n}
Workbooks(refs, dates, maxRows) ==
    { [i \in 1..Len(w) |-> [idx |-> i - 1, ref |-> w[i][1], date |-> w[i][2]]] :
        w \in SeqsUpTo(refs \X dates, maxRows) }

IsoText == <<"2", "0", "2", "4", "-", "0", "2", "-", "2", "9">>
NotADateText == <<"2", "0", "2", "3", "-", "0", "2", "-", "2", "9">>
FreeText == <<"s", "o", "o", "n">>

RefCells == {Str(<<"A">>), Str(<<"B">>), NaN}
DateCells == {Num(1), Str(IsoText), Str(NotADateText), Str(FreeText), NaN}
PipeRefCells == {Str(<<"A">>), Str(<<"B">>)}
PipeDateCells == {Num(1)}

RunEnded == pc \in {"idle", "done", "failed_read", "failed_parquet", "failed_sqlite", "failed_export"}

\* __main__ (162-168): a run starts on the workbook found in data/raw
StartRun ==
    /\ RunEnded
    /\ raw_df' \in Workbooks(PipeRefCells, PipeDateCells, MaxPipeRows)
    /\ snapshot0' = snapshot
    /\ mirror0' = mirror
    /\ rerun' = (pc = "done" /\ raw_df' = raw_df)
    /\ df' = <<>>
    /\ pc' = "clean"
    /\ UNCHANGED <<dateVars, dashVars, snapshot, mirror, app_parquet, loaded>>

\* clean_iea_data raises before it writes (63-71: file or sheet missing)
CleanIeaDataReadFail ==
    /\ pc = "clean"
    /\ pc' = "failed_read"
    /\ UNCHANGED <<dateVars, dashVars, pipeVars>>

\* clean_iea_data, to_parquet succeeds (58-119)
CleanIeaData ==
    /\ pc = "clean"
    /\ df' = CleanTable(raw_df)
    /\ snapshot' = ParquetFile(CleanTable(raw_df))
    /\ pc' = "mirror"
    /\ UNCHANGED <<dateVars, dashVars, raw_df, mirror, app_parquet, snapshot0, mirror0, loaded, rerun>>

\* clean_iea_data, to_parquet raises (112-117): the target is written in
\* place, so it is either not yet touched or left truncated
CleanIeaDataWriteFail ==
    /\ pc = "clean"
    /\ snapshot' \in {snapshot, PartialFile}
    /\ pc' = "failed_parquet"
    /\ UNCHANGED <<dateVars, dashVars, raw_df, df, mirror, app_parquet, snapshot0, mirror0, loaded, rerun>>

\* create_sqlite_mirror succeeds (121-138)
CreateSqliteMirror ==
    /\ pc = "mirror"
    /\ snapshot.state = "ok"
    /\ mirror' = create_index(to_sql(mirror, snapshot.rows), "DATABASE_Ref")
    /\ pc' = "finish"
    /\ UNCHANGED <<dateVars, dashVars, raw_df, df, snapshot, app_parquet, snapshot0, mirror0, loaded, rerun>>

\* create_sqlite_mirror raises (136-138): before the table was touched,
\* after the old table was dropped, or after the new one was created empty
\* (sqlite3 runs DROP/CREATE TABLE outside the implicit transaction)
CreateSqliteMirrorFail ==
    /\ pc = "mirror"
    /\ mirror' \in {mirror, AbsentTable, Table(<<>>, {})}
    /\ pc' = "failed_sqlite"
    /\ UNCHANGED <<dateVars, dashVars, raw_df, df, snapshot, app_parquet, snapshot0, mirror0, loaded, rerun>>

\* print_dataframe_table and export_dataframe_to_excel (171-176)
FinishRun ==
    /\ pc = "finish"
    /\ pc' \in {"done", "failed_export"}
    /\ UNCHANGED <<dateVars, dashVars, pipeVars>>

\* pd.to_datetime(column, errors='coerce') of app.py line 109: text that is
\* no date (the text 'None' included) becomes NaT
to_datetime_coerce(cell) ==
    IF cell.t = "str" /\ ParsesAsIso(cell.s) THEN cell ELSE None

Processed(rows) ==
    [i \in 1..Len(rows) |-> [rows[i] EXCEPT !.date = to_datetime_coerce(@)]]

\* the three paths of the data directory
CleanPath == "data/processed/cleaned.parquet"
AppParquetPath == "data/projects.parquet"
DbPath == "data/projects.db"

NothingLoaded == [source |-> "none", rows |-> <<>>]

\* load_and_process_data (app.py 86-122), run on a cache miss.  The file
\* tested and read is data/projects.parquet, not the data/processed/
\* cleaned.parquet that clean_iea_data writes; otherwise table projects of
\* data/projects.db is indexed and read; any exception yields None.
LoadAndProcessData ==
    /\ RunEnded
    /\ IF app_parquet.state # "absent"
       THEN /\ loaded' = [source |-> AppParquetPath,
                          rows |-> Processed(Columns(app_parquet.rows))]
            /\ UNCHANGED mirror
       ELSE IF mirror.state = "ok"
            THEN /\ mirror' = create_index(create_index(mirror, "DATABASE_Project name"),
                                           "DATABASE_Country")
                 /\ loaded' = [source |-> DbPath, rows |-> Processed(mirror.rows)]
            ELSE /\ loaded' = [source |-> "error", rows |-> <<>>]
                 /\ UNCHANGED mirror
    /\ UNCHANGED <<pc, dateVars, dashVars, raw_df, df, snapshot, app_parquet, snapshot0, mirror0, rerun>>

\* a data/projects.parquet put in place by other means; nothing in the
\* repository writes this path
ForeignFile == ParquetFile(<<[idx |-> 0, ref |-> Str(<<"Z">>), date |-> Str(NoneText)]>>)

DateIdle ==
    /\ date_val = None
    /\ date_out = None

PipeIdle ==
    /\ DashIdle
    /\ raw_df = <<>>
    /\ df = <<>>
    /\ snapshot = AbsentFile
    /\ mirror = AbsentTable
    /\ app_parquet = AbsentFile
    /\ snapshot0 = AbsentFile
    /\ mirror0 = AbsentTable
    /\ loaded = NothingLoaded
    /\ rerun = FALSE

(***************************************************************************)
(* Specification SpecClean: one run of the pipeline on any small workbook. *)
(***************************************************************************)
InitClean ==
    /\ pc = "clean"
    /\ DateIdle
    /\ raw_df \in Workbooks(RefCells, DateCells, MaxRows)
    /\ df = <<>>
    /\ snapshot = AbsentFile
    /\ mirror = AbsentTable
    /\ app_parquet = AbsentFile
    /\ snapshot0 = AbsentFile
    /\ mirror0 = AbsentTable
    /\ loaded = NothingLoaded
    /\ rerun = FALSE
    /\ DashIdle

NextClean ==
    \/ CleanIeaDataReadFail
    \/ CleanIeaData
    \/ CleanIeaDataWriteFail
    \/ CreateSqliteMirror
    \/ CreateSqliteMirrorFail
    \/ FinishRun

SpecClean == InitClean /\ [][NextClean]_vars

(***************************************************************************)
(* Specification SpecPipe: repeated runs of the pipeline, and the          *)
(* dashboard loading its data between runs.                                *)
(***************************************************************************)
InitPipe ==
    /\ pc = "idle"
    /\ DateIdle
    /\ raw_df = <<>>
    /\ df = <<>>
    /\ snapshot = AbsentFile
    /\ mirror = AbsentTable
    /\ app_parquet \in {AbsentFile, ForeignFile}
    /\ snapshot0 = AbsentFile
    /\ mirror0 = AbsentTable
    /\ loaded = NothingLoaded
    /\ rerun = FALSE
    /\ DashIdle

NextPipe ==
    \/ StartRun
    \/ CleanIeaDataReadFail
    \/ CleanIeaData
    \/ CleanIeaDataWriteFail
    \/ CreateSqliteMirror
    \/ CreateSqliteMirrorFail
    \/ FinishRun
    \/ LoadAndProcessData

SpecPipe == InitPipe /\ [][NextPipe]_vars

(***************************************************************************)
(* Specification SpecDash: a session of the dashboard on a loaded frame.   *)
(***************************************************************************)
InitDash ==
    /\ pc = "dash"
    /\ DateIdle
    /\ raw_df = <<>>
    /\ df = <<>>
    /\ snapshot = AbsentFile
    /\ mirror = AbsentTable
    /\ app_parquet = AbsentFile
    /\ snapshot0 = AbsentFile
    /\ mirror0 = AbsentTable
    /\ loaded = NothingLoaded
    /\ rerun = FALSE
    /\ dash_df \in {Dataset(n) : n \in 0..MaxRecords}
    /\ search = <<>>
    /\ show_filters = FALSE
    /\ selection = NoSelection
    /\ page = 1

NextDash ==
    \/ NextPage
    \/ PreviousPage
    \/ ChangeSearch
    \/ ToggleFilters
    \/ ChangeFilter

SpecDash == InitDash /\ [][NextDash]_vars

(***************************************************************************)
(* Specification SpecDate: excel_date_converter applied to one serial.     *)
(***************************************************************************)
InitDate ==
    /\ pc = "date_start"
    /\ date_val \in {Num(n) : n \in 0..MaxSerial}
    /\ date_out = None
    /\ PipeIdle

ConvertDate ==
    /\ pc = "date_start"
    /\ date_out' = excel_date_converter(date_val)
    /\ pc' = "date_done"
    /\ UNCHANGED <<date_val, pipeVars, dashVars>>

NextDate == ConvertDate

SpecDate == InitDate /\ [][NextDate]_vars

(***************************************************************************)
(* Properties                                                              *)
(***************************************************************************)

\* __main__ holds the frame clean_iea_data returned
DfReturned == pc \in {"mirror", "finish", "done", "failed_sqlite", "failed_export"}

\* C2: when the Parquet write or the SQLite write of a run fails, the
\* snapshot file and the mirror table published before the run both still
\* hold the content they had when the run started.
C2_FailedWriteLeavesPublishedState ==
    (pc \in {"failed_parquet", "failed_sqlite"} /\ snapshot0.state = "ok" /\ mirror0.state = "ok")
        => (snapshot = snapshot0 /\ mirror = mirror0)

\* C3: the table clean_iea_data returns has exactly one row per distinct
\* identifier (the DATABASE_Ref value as a string), that row is the first
\* sheet row carrying the identifier, with its date cleaned from that row,
\* and the rows kept are in sheet order.
C3_KeepFirstPerIdentifier ==
    DfReturned =>
        LET id(i) == astype_str(raw_df[i].ref)
            first(i) == \A j \in 1..(i - 1) : id(j) # id(i)
        IN  /\ \A i \in 1..Len(raw_df) :
                   /\ Cardinality({k \in 1..Len(df) : df[k].ref = id(i)}) = 1
                   /\ first(i) =>
                        \E k \in 1..Len(df) :
                            /\ df[k].ref = id(i)
                            /\ df[k].idx = raw_df[i].idx
                            /\ df[k].date = astype_str(excel_date_converter(raw_df[i].date))
            /\ \A k \in 1..Len(df) : \E i \in 1..Len(raw_df) : df[k].ref = id(i)
            /\ \A k, l \in 1..Len(df) : k < l => df[k].idx < df[l].idx

\* C3 witness: identifiers A, A, B with differing dates, cleaned to two rows
C3_Witness ==
    /\ pc = "mirror"
    /\ Len(raw_df) = 3
    /\ raw_df[1].ref = raw_df[2].ref
    /\ raw_df[1].ref.t = "str"
    /\ raw_df[3].ref.t = "str"
    /\ raw_df[3].ref # raw_df[1].ref
    /\ raw_df[1].date = Str(IsoText)
    /\ raw_df[2].date = Num(1)
    /\ Len(df) = 2
    /\ df[1].date = Str(IsoText)

\* C4: every sheet row whose identifier cell is empty is dropped, and no
\* row of the cleaned table has an empty, null or placeholder identifier.
C4_MissingIdentifierRowsDropped ==
    DfReturned =>
        /\ \A k \in 1..Len(df) :
               /\ ~isna(df[k].ref)
               /\ df[k].ref.s \notin {<<>>, NanText, NoneText}
        /\ \A i \in 1..Len(raw_df) :
               isna(raw_df[i].ref) => \A k \in 1..Len(df) : df[k].idx # raw_df[i].idx

\* C5: every date value of the table written to the snapshot is a valid
\* calendar date or null, never a serial, unparsed text or a text standing
\* for null.
C5_DatesAreDateOrNull ==
    snapshot.state = "ok" =>
        \A k \in 1..Len(snapshot.rows) :
            LET v == snapshot.rows[k].date
            IN  \/ isna(v)
                \/ v.t = "str" /\ ParsesAsIso(v.s)

\* C6: excel_date_converter(n) is the date n days after 1899-12-30
\* (serial 0 is 1899-12-30, serial 1 is 1899-12-31).  The days are counted
\* from the calendar: 365 per year, one more per leap year, plus the day of
\* the year; 1900-01-01 is day 2.
C6_SerialIsDaysAfterEpoch ==
    (pc = "date_done" /\ date_val.t = "num") =>
        LET s == date_out.s
            d == IsoFields(s)
            LeapsBefore(y) == ((y - 1) \div 4) - ((y - 1) \div 100) + ((y - 1) \div 400)
            MonthLen(m) == IF m = 2 THEN (IF IsLeap(d.y) THEN 29 ELSE 28)
                           ELSE IF m \in {4, 6, 9, 11} THEN 30 ELSE 31
            BeforeMonth[m \in 1..12] == IF m = 1 THEN 0 ELSE BeforeMonth[m - 1] + MonthLen(m - 1)
            days == 365 * (d.y - 1900) + (LeapsBefore(d.y) - LeapsBefore(1900))
                    + BeforeMonth[d.m] + d.d + 1
        IN  /\ date_out.t = "str"
            /\ MatchesIsoFormat(s)
            /\ d.m \in 1..12
            /\ d.d \in 1..MonthLen(d.m)
            /\ days = date_val.n
            /\ date_val.n = 0 => s = <<"1", "8", "9", "9", "-", "1", "2", "-", "3", "0">>
            /\ date_val.n = 1 => s = <<"1", "8", "9", "9", "-", "1", "2", "-", "3", "1">>

\* C6 witness: serial 1521 converted to the leap day 1904-02-29
C6_Witness ==
    /\ pc = "date_done"
    /\ date_val = Num(1521)
    /\ date_out = Str(<<"1", "9", "0", "4", "-", "0", "2", "-", "2", "9">>)

\* C9: after a successful run the snapshot holds exactly the cleaned rows
\* of the run's workbook, the mirror holds exactly the snapshot's rows, and
\* a successful run repeated on the same workbook leaves both as they were.
C9_SuccessfulRunReplacesOutput ==
    pc = "done" =>
        /\ snapshot = ParquetFile(CleanTable(raw_df))
        /\ mirror.state = "ok"
        /\ mirror.rows = Columns(snapshot.rows)
        /\ rerun => (snapshot = snapshot0 /\ mirror.rows = mirror0.rows)

\* C9 witness: a successful run on a one-row workbook over a published
\* snapshot and mirror that held two rows, the first with another identifier
C9_Witness ==
    /\ pc = "done"
    /\ snapshot0.state = "ok"
    /\ mirror0.state = "ok"
    /\ Len(mirror0.rows) = 2
    /\ Len(mirror.rows) = 1
    /\ mirror.rows[1].ref # mirror0.rows[1].ref
    /\ snapshot.rows = <<[idx |-> 0, ref |-> mirror.rows[1].ref, date |-> mirror.rows[1].date]>>

\* C10: load_and_process_data reads the snapshot the pipeline published
\* whenever that file exists, and reads the mirror only when it is absent.
C10_LoadsPublishedSnapshot ==
    [][LoadAndProcessData =>
         /\ snapshot.state = "ok" =>
                /\ loaded'.source = CleanPath
                /\ loaded'.rows = Processed(Columns(snapshot.rows))
         /\ loaded'.source = DbPath => snapshot.state = "absent"]_vars

\* C1: the page used to slice the result list is within
\* [1, max(ceil(count / 9), 1)] for the records passing the current search
\* and filters.
C1_PageWithinRange ==
    pc = "dash" => (page >= 1 /\ page <= total_pages(total_items))

\* C7: apply_filters returns, in order, exactly the records whose
\* project_name or country contains the query as a case-insensitive
\* literal substring (any record for an empty query) and whose status,
\* technology and country are each among the selected values when values
\* are selected.
C7_LiteralSubstringAndFilters ==
    pc = "dash" =>
        LET Contains(text, q) ==
                \E k \in 0..(Len(text) - Len(q)) :
                    \A i \in 1..Len(q) : Lower(q[i]) = Lower(text[k + i])
            sel == IF show_filters THEN selection ELSE NoSelection
            Passes(r) ==
                /\ search = <<>> \/ Contains(r.project_name, search) \/ Contains(r.country, search)
                /\ \A f \in {"status", "technology", "country"} : sel[f] # {} => r[f] \in sel[f]
        IN  filtered_df = SelectSeq(dash_df, Passes)

\* C8: the page count is ceil(n / 9), 1 for n = 0; page p shows the sorted
\* records (p-1)*9+1 .. min(p*9, n); the pages, in order, make up the sorted
\* list.
C8_PagesPartitionSortedList ==
    pc = "dash" =>
        LET n == total_items
            tp == total_pages(n)
            Concat[p \in 0..tp] == IF p = 0 THEN <<>> ELSE Concat[p - 1] \o paged_df(sorted_df, p)
        IN  /\ tp >= 1
            /\ 9 * tp >= n
            /\ n > 0 => 9 * (tp - 1) < n
            /\ n = 0 => tp = 1
            /\ \A p \in 1..tp :
                   LET last == IF p * 9 < n THEN p * 9 ELSE n
                   IN  paged_df(sorted_df, p) = [k \in 1..(last - (p - 1) * 9) |-> sorted_df[(p - 1) * 9 + k]]
            /\ Concat[tp] = sorted_df

\* C8 witness: 20 records, three pages, the third shown with records 19, 20
C8_Witness ==
    /\ pc = "dash"
    /\ total_items = 20
    /\ total_pages(total_items) = 3
    /\ page = 3
    /\ paged_df(sorted_df, page) = <<sorted_df[19], sorted_df[20]>>
    /\ Len(paged_df(sorted_df, 1)) = 9

\* C11: after every successful pipeline run the mirror table projects has
\* an index on the identifier column, on the project-name column and on the
\* country column, whether or not the dashboard has run.
C11_MirrorHasThreeIndexes ==
    pc = "done" =>
        /\ mirror.state = "ok"
        /\ {"DATABASE_Ref", "DATABASE_Project name", "DATABASE_Country"} \subseteq mirror.indexes

====
